---- MODULE Spec2Model ----
(***************************************************************************)
(* The Python tooling of Midnight Grind.  The duplicate-declaration        *)
(* scanner and fixer:                                                      *)
(*   auto_fix_duplicates.py  (find_all_types, fix_duplicates)              *)
(*   fix_duplicates.py       (find_duplicates, main)                       *)
(* and the two drivers of the prototype:                                   *)
(*   mcp_blueprint_builder.py  (UnrealMCP.send_command, build_all)         *)
(*   00_RunAllSetup.py         (run_all_setup)                             *)
(*                                                                         *)
(* A file's text is a sequence of lexical items.  The items are the ones   *)
(* the two scripts' regular expressions can tell apart:                    *)
(*   open    the text "/**"                                                *)
(*   close   the text "*/"                                                 *)
(*   enum    "UENUM(..) enum class <name> : uint8 { .. };"                 *)
(*   struct  "USTRUCT(..) struct <name> { GENERATED_BODY() .. };"          *)
(*   stub    the two comment lines fix_duplicates writes                   *)
(* Strings that the code compares or slices (paths, type names) are        *)
(* sequences of character codes.                                           *)
(***************************************************************************)
EXTENDS Integers, Sequences, FiniteSets, TLC

VARIABLES prog, tree, tree0, run, pc, walked, types, key_order, duplicates,
          queue, locations, li, fixed_count, out,
          command, server, chunks, response, sent, todo, pending, built,
          step, executed

vars == <<prog, tree, tree0, run, pc, walked, types, key_order, duplicates,
          queue, locations, li, fixed_count, out,
          command, server, chunks, response, sent, todo, pending, built,
          step, executed>>

\* the state of the scanner and fixer
scan_vars == <<tree, tree0, run, walked, types, key_order, duplicates, queue,
               locations, li, fixed_count>>

\* the state of mcp_blueprint_builder.py
builder_vars == <<command, server, chunks, response, sent, todo, pending, built>>

\* the state of 00_RunAllSetup.py
setup_vars == <<step, executed>>

-----------------------------------------------------------------------------
(* Bounds *)

MaxTokens == 3

MaxDeep == 6

MaxOrder == 4

MaxRuns == 2

MaxIO == 4

MaxLive == 3

MaxDigits == 2

MaxLetters == 2

MaxBuild == 1

MaxText == 5

-----------------------------------------------------------------------------
(* Character strings *)

BACKSLASH == 92

SLASH == 47

\* r"E:\UNREAL ENGINE\midnightgrind\Source\MidnightGrind\Public"
SOURCE_PATH ==
  <<69, 58, 92, 85, 78, 82, 69, 65, 76, 32, 69, 78, 71, 73, 78, 69, 92,
    109, 105, 100, 110, 105, 103, 104, 116, 103, 114, 105, 110, 100, 92,
    83, 111, 117, 114, 99, 101, 92,
    77, 105, 100, 110, 105, 103, 104, 116, 71, 114, 105, 110, 100, 92,
    80, 117, 98, 108, 105, 99>>

\* ".h"
DotH == <<46, 104>>

\* "FMG"
FMG == <<70, 77, 71>>

\* str.__lt__ : comparison by code point, a proper prefix is smaller
StrLess(a, b) ==
  LET D == {i \in 1..Len(a) : i <= Len(b) /\ a[i] # b[i]}
  IN IF D = {} THEN Len(a) < Len(b)
     ELSE \E i \in D : (\A j \in D : i <= j) /\ a[i] < b[i]

endswith_extension(s, suffix) ==
  /\ Len(s) >= Len(suffix)
  /\ s[Len(s) - Len(suffix) + 1] = suffix[1]

\* str.endswith
endswith(s, suffix) ==
  /\ Len(s) >= Len(suffix)
  /\ SubSeq(s, Len(s) - Len(suffix) + 1, Len(s)) = suffix

\* str.startswith
startswith(s, prefix) ==
  /\ Len(s) >= Len(prefix)
  /\ SubSeq(s, 1, Len(prefix)) = prefix

\* os.path.join(root, file) for a name relative to SOURCE_PATH
join(rel) == SOURCE_PATH \o <<BACKSLASH>> \o rel

\* os.path.relpath(path, SOURCE_PATH) for a path below SOURCE_PATH
relpath(path) == SubSeq(path, Len(SOURCE_PATH) + 2, Len(path))

replace_backslash_kept(s) == s

\* .replace('\\', '/')
replace_backslash(s) == [i \in 1..Len(s) |-> IF s[i] = BACKSLASH THEN SLASH ELSE s[i]]

-----------------------------------------------------------------------------
(* The tree below SOURCE_PATH *)

\* "b.h", "a\b.h", "a.c", "c.h"
RelB == <<98, 46, 104>>

RelAB == <<97, 92, 98, 46, 104>>

RelAC == <<97, 46, 99>>

RelC == <<99, 46, 104>>

\* type names "E", "G", "FMGC", "C"
NameE == <<69>>

NameG == <<71>>

NameFMGC == <<70, 77, 71, 67>>

NameC == <<67>>

TypeNames == {NameE, NameG, NameFMGC, NameC}

NoStr == <<>>

Open == [k |-> "open", name |-> NoStr, ref |-> NoStr]

Close == [k |-> "close", name |-> NoStr, ref |-> NoStr]

Enum(n) == [k |-> "enum", name |-> n, ref |-> NoStr]

Struct(n) == [k |-> "struct", name |-> n, ref |-> NoStr]

\* f"// {type_name} - REMOVED (duplicate)\n// Canonical definition in: {canonical_rel}\n"
new_text(type_name, canonical_rel) ==
  [k |-> "REMOVED (duplicate)", name |-> type_name, ref |-> canonical_rel]

\* one byte of a file that belongs to none of the items above
Byte(b) == [k |-> "byte", name |-> <<b>>, ref |-> NoStr]

LF == Byte(10)

CR == Byte(13)

\* a byte that occurs in no UTF-8 sequence
Invalid == Byte(255)

BSeq(S, n) == UNION {[1..m -> S] : m \in 0..n}

\* the files of a tree, given as a list of relative names, holding the text
\* s cut at the positions c (one cut between consecutive files)
RECURSIVE CutTree(_, _, _, _)
CutTree(rels, s, c, from) ==
  IF Len(rels) = 1 THEN join(rels[1]) :> SubSeq(s, from, Len(s))
  ELSE (join(rels[1]) :> SubSeq(s, from, c[1]))
       @@ CutTree(Tail(rels), s, Tail(c), c[1] + 1)

Cuts(n, len) ==
  {c \in [1..n -> 0..len] : \A i \in 1..n - 1 : c[i] <= c[i + 1]}

Trees(rels, alphabet, max) ==
  UNION {{CutTree(rels, s, c, 1) : c \in Cuts(Len(rels) - 1, Len(s))} :
         s \in BSeq(alphabet, max)}

-----------------------------------------------------------------------------
(* Text files *)

\* the bytes no UTF-8 sequence holds: 0xC0, 0xC1 and 0xF5..0xFF
never_utf8 == {192, 193} \cup (245..255)

\* decoding with encoding='utf-8', errors='ignore': a byte that cannot be
\* decoded is left out (the files here hold ASCII text and such bytes)
decode_ignore(bytes) ==
  SelectSeq(bytes, LAMBDA t : ~(t.k = "byte" /\ t.name[1] \in never_utf8))

\* reading in text mode with newline=None: "\r\n" and "\r" become "\n"
RECURSIVE universal_newlines(_)
universal_newlines(s) ==
  IF s = <<>> THEN <<>>
  ELSE IF Head(s) = CR
       THEN <<LF>> \o universal_newlines(IF Len(s) > 1 /\ s[2] = LF
                                          THEN SubSeq(s, 3, Len(s)) ELSE Tail(s))
       ELSE <<Head(s)>> \o universal_newlines(Tail(s))

\* open(filepath, 'r', encoding='utf-8', errors='ignore').read()
read_text(bytes) == universal_newlines(decode_ignore(bytes))

\* os.linesep where SOURCE_PATH is a path: "\r\n"
linesep == <<CR, LF>>

\* open(filepath, 'w', encoding='utf-8').write(content): with newline=None
\* every "\n" is written as os.linesep
RECURSIVE write_text(_)
write_text(content) ==
  IF content = <<>> THEN <<>>
  ELSE (IF Head(content) = LF THEN linesep ELSE <<Head(content)>>)
       \o write_text(Tail(content))

-----------------------------------------------------------------------------
(* os.walk(SOURCE_PATH) *)

Files == DOMAIN tree

\* the directories at or below SOURCE_PATH that contain path p
DirsOf(p) ==
  {SubSeq(p, 1, i - 1) : i \in {j \in Len(SOURCE_PATH) + 1..Len(p) : p[j] = BACKSLASH}}

dirname(p) ==
  CHOOSE d \in DirsOf(p) : \A e \in DirsOf(p) : Len(e) <= Len(d)

Visited == {walked[i] : i \in 1..Len(walked)}

\* os.walk is top-down: the files of a directory are yielded before those of
\* its sub-directories, and a sub-directory is walked to its end before the
\* next one is entered; the order inside one listing is the file system's
WalkNext(f) ==
  /\ f \in Files \ Visited
  /\ \A g \in Files \ Visited :
        ~(dirname(g) # dirname(f) /\ dirname(g) \in DirsOf(f))
  /\ \A g \in Visited : \A d \in DirsOf(g) :
        d \notin DirsOf(f) => \A h \in Files : d \in DirsOf(h) => h \in Visited

-----------------------------------------------------------------------------
(* The patterns *)

Min(S) == CHOOSE x \in S : \A y \in S : x <= y

\* \s: "\t", "\n", "\v", "\f", "\r" and " "
is_space(t) == t.k = "byte" /\ t.name[1] \in (9..13) \cup {32}

\* \s* tried at position j: the position of the first item from j on that is
\* not white space, Len(content) + 1 when there is none
skip_space(content, j) ==
  Min({e \in j..Len(content) + 1 :
         e = Len(content) + 1 \/ ~is_space(content[e])})

\* enum_pattern of find_all_types, tried at position i: the index of the last
\* item of the match, 0 when there is none.  The optional group
\* (?:/\*\*[\s\S]*?\*/\s*)? starts at "/**" and runs lazily to the first "*/"
\* that is followed, after white space only, by a UENUM declaration.
enum_pattern_end(content, i) ==
  IF content[i].k = "open"
  THEN LET enum_after(j) ==
             \E e \in {skip_space(content, j + 1)} :
               e <= Len(content) /\ content[e].k = "enum"
           J == {j \in i + 1..Len(content) - 1 :
                   content[j].k = "close" /\ enum_after(j)}
       IN IF J = {} THEN 0 ELSE skip_space(content, Min(J) + 1)
  ELSE IF content[i].k = "enum" THEN i
  ELSE 0

\* enum_pattern.finditer(content): leftmost, non-overlapping matches
RECURSIVE enum_pattern_finditer(_, _, _)
enum_pattern_finditer(filepath, content, i) ==
  IF i > Len(content) THEN <<>>
  ELSE LET e == enum_pattern_end(content, i)
       IN IF e = 0 THEN enum_pattern_finditer(filepath, content, i + 1)
          ELSE <<[file |-> filepath,
                  match |-> SubSeq(content, i, e),
                  start |-> i,
                  end |-> e + 1,
                  kind |-> "enum",
                  name |-> content[e].name]>>
               \o enum_pattern_finditer(filepath, content, e + 1)

RECURSIVE find_kind_any_name(_, _, _, _)
find_kind_any_name(filepath, content, i, kind) ==
  IF i > Len(content) THEN <<>>
  ELSE IF content[i].k = kind
       THEN <<[file |-> filepath, start |-> i, kind |-> kind,
               name |-> content[i].name]>>
            \o find_kind_any_name(filepath, content, i + 1, kind)
       ELSE find_kind_any_name(filepath, content, i + 1, kind)

\* the two finditer loops of find_duplicates: the enum matches of the file,
\* then the struct matches whose name starts with FMG
RECURSIVE find_kind(_, _, _, _)
find_kind(filepath, content, i, kind) ==
  IF i > Len(content) THEN <<>>
  ELSE IF content[i].k = kind
          /\ (kind = "struct" => startswith(content[i].name, FMG))
       THEN <<[file |-> filepath, start |-> i, kind |-> kind,
               name |-> content[i].name]>>
            \o find_kind(filepath, content, i + 1, kind)
       ELSE find_kind(filepath, content, i + 1, kind)

find_duplicates_matches_distinct(filepath, content) ==
  find_kind(filepath, content, 1, "enum")
  \o SelectSeq(find_kind(filepath, content, 1, "struct"),
               LAMBDA m : \A i \in 1..Len(content) : content[i] # Enum(m.name))

\* the matches of one file: the enums (lines 31-34), then the structs
\* (lines 37-40)
find_duplicates_matches(filepath, content) ==
  find_kind(filepath, content, 1, "enum") \o find_kind(filepath, content, 1, "struct")

\* types[type_name].append(..) for every match, in order (defaultdict(list))
RECURSIVE append_all(_, _)
append_all(d, ms) ==
  IF ms = <<>> THEN d
  ELSE append_all([d EXCEPT ![Head(ms).name] = Append(@, Head(ms))], Tail(ms))

only_duplicates_any(d) == [n \in TypeNames |-> d[n]]

\* the keys of the dict in the order of their first insertion
RECURSIVE insertion_order(_, _)
insertion_order(order, ms) ==
  IF ms = <<>> THEN order
  ELSE insertion_order(IF \E i \in 1..Len(order) : order[i] = Head(ms).name
                       THEN order ELSE Append(order, Head(ms).name),
                       Tail(ms))

\* {k: v for k, v in types.items() if len(v) > 1}
only_duplicates(d) == [n \in TypeNames |-> IF Len(d[n]) > 1 THEN d[n] ELSE <<>>]

keys(d) == {n \in TypeNames : d[n] # <<>>}

EmptyDict == [n \in TypeNames |-> <<>>]

-----------------------------------------------------------------------------
(* fix_duplicates of auto_fix_duplicates.py *)

\* duplicates.items(): the keys of the filtered dict, in insertion order
items(order, d) == SelectSeq(order, LAMBDA n : d[n] # <<>>)

insert_key(s, x) ==
  LET n == Cardinality({i \in 1..Len(s) : ~StrLess(x, s[i])})
  IN SubSeq(s, 1, n) \o <<x>> \o SubSeq(s, n + 1, Len(s))

sorted_keys_unsorted(s) == s

\* sorted(duplicates.items()): the keys in increasing order (the keys are
\* distinct, so the lists are never compared)
RECURSIVE sorted_keys(_)
sorted_keys(s) ==
  IF s = <<>> THEN <<>>
  ELSE CHOOSE t \in {insert_key(r, s[Len(s)]) :
                      r \in {sorted_keys(SubSeq(s, 1, Len(s) - 1))}} : TRUE

\* list.sort(key=lambda x: x['file']) is stable: an element goes behind every
\* element whose file is not greater than its own
insert_by_file(s, x) ==
  LET n == Cardinality({i \in 1..Len(s) : ~StrLess(x.file, s[i].file)})
  IN SubSeq(s, 1, n) \o <<x>> \o SubSeq(s, n + 1, Len(s))

sort_by_file_unsorted(s) == s

RECURSIVE sort_by_file(_)
sort_by_file(s) ==
  IF s = <<>> THEN <<>>
  ELSE CHOOSE t \in {insert_by_file(r, s[Len(s)]) :
                      r \in {sort_by_file(SubSeq(s, 1, Len(s) - 1))}} : TRUE

\* content.find(old_text) + 1: the first position where old_text occurs, or 0
find(content, old_text) ==
  LET P == {i \in 1..Len(content) - Len(old_text) + 1 :
              SubSeq(content, i, i + Len(old_text) - 1) = old_text}
  IN IF P = {} THEN 0 ELSE Min(P)

\* content.replace(old_text, new_text, 1)
replace_first(content, old_text, new) ==
  LET i == find(content, old_text)
  IN IF i = 0 THEN content
     ELSE SubSeq(content, 1, i - 1) \o <<new>>
          \o SubSeq(content, i + Len(old_text), Len(content))

fix_location_tree_stale(tr, type_name, canonical, loc) ==
  LET filepath == loc.file
      content == read_text(tree0[filepath])
      old_text == loc.match
  IN IF find(content, old_text) # 0
     THEN LET canonical_rel == replace_backslash(relpath(canonical.file))
          IN [tr EXCEPT ![filepath] =
                write_text(replace_first(content, old_text,
                                         new_text(type_name, canonical_rel)))]
     ELSE tr

\* the body of "for loc in locations[1:]" without I/O errors: the tree after
\* the rewrite of loc['file']
fix_location_tree(tr, type_name, canonical, loc) ==
  LET filepath == loc.file
      content == read_text(tr[filepath])
      old_text == loc.match
  IN IF find(content, old_text) # 0
     THEN LET canonical_rel == replace_backslash(relpath(canonical.file))
          IN [tr EXCEPT ![filepath] =
                write_text(replace_first(content, old_text,
                                         new_text(type_name, canonical_rel)))]
     ELSE tr

canonical == locations[1]

type_name == Head(queue)

-----------------------------------------------------------------------------
(* Actions of auto_fix_duplicates.py *)

find_all_types_file_rewriting(f) ==
  /\ prog = "auto"
  /\ pc = "walk"
  /\ WalkNext(f)
  /\ endswith(f, DotH)
  /\ types' = append_all(types, enum_pattern_finditer(f, read_text(tree[f]), 1))
  /\ key_order' = insertion_order(key_order, enum_pattern_finditer(f, read_text(tree[f]), 1))
  /\ walked' = Append(walked, f)
  /\ tree' = [tree EXCEPT ![f] = SelectSeq(@, LAMBDA t : t.k # "close")]
  /\ UNCHANGED <<prog, tree0, run, pc, duplicates, queue, locations, li,
                 fixed_count, out>>
  /\ UNCHANGED <<builder_vars, setup_vars>>

\* one header file of the walk in find_all_types (lines 27-43)
find_all_types_file(f) ==
  /\ prog = "auto"
  /\ pc = "walk"
  /\ WalkNext(f)
  /\ endswith(f, DotH)
  /\ types' = append_all(types, enum_pattern_finditer(f, read_text(tree[f]), 1))
  /\ key_order' = insertion_order(key_order, enum_pattern_finditer(f, read_text(tree[f]), 1))
  /\ walked' = Append(walked, f)
  /\ UNCHANGED <<prog, tree, tree0, run, pc, duplicates, queue, locations, li,
                 fixed_count, out>>
  /\ UNCHANGED <<builder_vars, setup_vars>>

\* a file whose name does not end in ".h" (lines 28-29)
find_all_types_skip(f) ==
  /\ prog = "auto"
  /\ pc = "walk"
  /\ WalkNext(f)
  /\ ~endswith(f, DotH)
  /\ walked' = Append(walked, f)
  /\ UNCHANGED <<prog, tree, tree0, run, pc, types, key_order, duplicates, queue, locations,
                 li, fixed_count, out>>
  /\ UNCHANGED <<builder_vars, setup_vars>>

find_all_types_error_discarding(f) ==
  /\ prog = "auto"
  /\ pc = "walk"
  /\ WalkNext(f)
  /\ endswith(f, DotH)
  /\ out' = Append(out, <<"Error", f>>)
  /\ walked' = Append(walked, f)
  /\ types' = EmptyDict
  /\ key_order' = <<>>
  /\ UNCHANGED <<prog, tree, tree0, run, pc, duplicates, queue, locations, li,
                 fixed_count>>
  /\ UNCHANGED <<builder_vars, setup_vars>>

\* a header file whose open or read raises (lines 31-33, 45-46): the error
\* line is printed and the walk goes on
find_all_types_error(f) ==
  /\ prog = "auto"
  /\ pc = "walk"
  /\ WalkNext(f)
  /\ endswith(f, DotH)
  /\ out' = Append(out, <<"Error", f>>)
  /\ walked' = Append(walked, f)
  /\ UNCHANGED <<prog, tree, tree0, run, pc, types, key_order, duplicates, queue,
                 locations, li, fixed_count>>
  /\ UNCHANGED <<builder_vars, setup_vars>>

\* the return of find_all_types and the head of fix_duplicates (lines 48-57)
find_all_types_return ==
  /\ prog = "auto"
  /\ pc = "walk"
  /\ Visited = Files
  /\ duplicates' = only_duplicates(types)
  /\ out' = Append(out, <<"Found", Cardinality(keys(duplicates'))>>)
  /\ fixed_count' = 0
  /\ queue' = sorted_keys(items(key_order, duplicates'))
  /\ pc' = "loop"
  /\ UNCHANGED <<prog, tree, tree0, run, walked, types, key_order, locations, li>>
  /\ UNCHANGED <<builder_vars, setup_vars>>

fix_group_all ==
  /\ prog = "auto"
  /\ pc = "loop"
  /\ queue # <<>>
  /\ LET sorted == sort_by_file(duplicates[type_name])
     IN /\ locations' = sorted
        /\ duplicates' = [duplicates EXCEPT ![type_name] = sorted]
        /\ out' = out \o <<<<"Fixing", type_name>>,
                           <<"Keeping", relpath(sorted[1].file)>>>>
  /\ li' = 1
  /\ pc' = "locs"
  /\ UNCHANGED <<prog, tree, tree0, run, walked, types, key_order, queue, fixed_count>>
  /\ UNCHANGED <<builder_vars, setup_vars>>

\* the head of the loop over the duplicate types (lines 57-63)
fix_group ==
  /\ prog = "auto"
  /\ pc = "loop"
  /\ queue # <<>>
  /\ LET sorted == sort_by_file(duplicates[type_name])
     IN /\ locations' = sorted
        /\ duplicates' = [duplicates EXCEPT ![type_name] = sorted]
        /\ out' = out \o <<<<"Fixing", type_name>>,
                           <<"Keeping", relpath(sorted[1].file)>>>>
  /\ li' = 2
  /\ pc' = "locs"
  /\ UNCHANGED <<prog, tree, tree0, run, walked, types, key_order, queue, fixed_count>>
  /\ UNCHANGED <<builder_vars, setup_vars>>

fix_location_counting ==
  /\ prog = "auto"
  /\ pc = "locs"
  /\ li <= Len(locations)
  /\ LET loc == locations[li]
     IN /\ tree' = fix_location_tree(tree, type_name, canonical, loc)
        /\ fixed_count' = fixed_count + 1
        /\ out' = Append(out, <<"Removing from", relpath(loc.file)>>)
  /\ li' = li + 1
  /\ IF li = Len(locations)
     THEN pc' = "loop" /\ queue' = Tail(queue)
     ELSE UNCHANGED <<pc, queue>>
  /\ UNCHANGED <<prog, tree0, run, walked, types, key_order, duplicates, locations>>
  /\ UNCHANGED <<builder_vars, setup_vars>>

\* one pass of the loop over locations[1:] (lines 66-84)
fix_location ==
  /\ prog = "auto"
  /\ pc = "locs"
  /\ li <= Len(locations)
  /\ LET loc == locations[li]
     IN /\ tree' = fix_location_tree(tree, type_name, canonical, loc)
        /\ fixed_count' = IF find(read_text(tree[loc.file]), loc.match) # 0
                          THEN fixed_count + 1 ELSE fixed_count
        /\ out' = Append(out, <<"Removing from", relpath(loc.file)>>)
  /\ li' = li + 1
  /\ IF li = Len(locations)
     THEN pc' = "loop" /\ queue' = Tail(queue)
     ELSE UNCHANGED <<pc, queue>>
  /\ UNCHANGED <<prog, tree0, run, walked, types, key_order, duplicates, locations>>
  /\ UNCHANGED <<builder_vars, setup_vars>>

\* the head and the tail of a pass whose try block raised e (lines 67-69,
\* 86-87): both lines are printed and the loop goes on
fix_location_raised(e) ==
  /\ out' = out \o <<<<"Removing from", relpath(locations[li].file)>>,
                     <<"Error fixing", e>>>>
  /\ li' = li + 1
  /\ IF li = Len(locations)
     THEN pc' = "loop" /\ queue' = Tail(queue)
     ELSE UNCHANGED <<pc, queue>>
  /\ UNCHANGED <<prog, tree0, run, walked, types, key_order, duplicates, locations>>
  /\ UNCHANGED <<builder_vars, setup_vars>>

fix_location_read_error_fatal ==
  /\ prog = "auto"
  /\ pc = "locs"
  /\ li <= Len(locations)
  /\ out' = Append(out, <<"Removing from", relpath(locations[li].file)>>)
  /\ pc' = "raised"
  /\ UNCHANGED <<prog, tree, tree0, run, walked, types, key_order, duplicates, queue,
                 locations, li, fixed_count>>
  /\ UNCHANGED <<builder_vars, setup_vars>>

\* a pass of the loop whose open or read raises (lines 72-73)
fix_location_read_error ==
  /\ prog = "auto"
  /\ pc = "locs"
  /\ li <= Len(locations)
  /\ fix_location_raised("read")
  /\ UNCHANGED <<tree, fixed_count>>

\* what a file can hold after open(filepath, 'w') or f.write(content) raised:
\* its old content when it could not be opened, otherwise a part of the new
\* content, as the file is truncated when it is opened
write_outcomes(old, new) == {old} \cup {SubSeq(new, 1, k) : k \in 0..Len(new)}

fix_location_write_error_counted ==
  /\ prog = "auto"
  /\ pc = "locs"
  /\ li <= Len(locations)
  /\ find(read_text(tree[locations[li].file]), locations[li].match) # 0
  /\ \E c \in write_outcomes(tree[locations[li].file],
                             fix_location_tree(tree, type_name, canonical,
                                               locations[li])[locations[li].file]) :
       tree' = [tree EXCEPT ![locations[li].file] = c]
  /\ fix_location_raised("write")
  /\ fixed_count' = fixed_count + 1

\* a pass of the loop whose write raises (lines 77-83, 86-87)
fix_location_write_error ==
  /\ prog = "auto"
  /\ pc = "locs"
  /\ li <= Len(locations)
  /\ find(read_text(tree[locations[li].file]), locations[li].match) # 0
  /\ \E c \in write_outcomes(tree[locations[li].file],
                             fix_location_tree(tree, type_name, canonical,
                                               locations[li])[locations[li].file]) :
       tree' = [tree EXCEPT ![locations[li].file] = c]
  /\ fix_location_raised("write")
  /\ UNCHANGED fixed_count

\* the summary line (line 89)
fix_summary ==
  /\ prog = "auto"
  /\ pc = "loop"
  /\ queue = <<>>
  /\ out' = Append(out, <<"Fixed", fixed_count>>)
  /\ pc' = "done"
  /\ UNCHANGED <<prog, tree, tree0, run, walked, types, key_order, duplicates, queue,
                 locations, li, fixed_count>>
  /\ UNCHANGED <<builder_vars, setup_vars>>

\* the script is started once more on the tree it left (lines 91-92)
run_again ==
  /\ prog = "auto"
  /\ pc = "done"
  /\ run < MaxRuns
  /\ run' = run + 1
  /\ tree0' = tree
  /\ pc' = "walk"
  /\ walked' = <<>>
  /\ types' = EmptyDict
  /\ key_order' = <<>>
  /\ duplicates' = EmptyDict
  /\ queue' = <<>>
  /\ locations' = <<>>
  /\ li' = 0
  /\ fixed_count' = 0
  /\ out' = <<<<"Scanning">>>>
  /\ UNCHANGED <<prog, tree>>
  /\ UNCHANGED <<builder_vars, setup_vars>>

-----------------------------------------------------------------------------
(* Actions of fix_duplicates.py *)

\* one header file of the walk in find_duplicates (lines 24-40)
find_duplicates_file(f) ==
  /\ prog = "report"
  /\ pc = "walk"
  /\ WalkNext(f)
  /\ endswith(f, DotH)
  /\ types' = append_all(types, find_duplicates_matches(f, read_text(tree[f])))
  /\ key_order' = insertion_order(key_order, find_duplicates_matches(f, read_text(tree[f])))
  /\ walked' = Append(walked, f)
  /\ UNCHANGED <<prog, tree, tree0, run, pc, duplicates, queue, locations, li,
                 fixed_count, out>>
  /\ UNCHANGED <<builder_vars, setup_vars>>

\* a file whose name does not end in ".h" (line 25)
find_duplicates_skip(f) ==
  /\ prog = "report"
  /\ pc = "walk"
  /\ WalkNext(f)
  /\ ~endswith(f, DotH)
  /\ walked' = Append(walked, f)
  /\ UNCHANGED <<prog, tree, tree0, run, pc, types, key_order, duplicates, queue, locations,
                 li, fixed_count, out>>
  /\ UNCHANGED <<builder_vars, setup_vars>>

\* a header file whose open or read raises (lines 27-29, 42-43)
find_duplicates_error(f) ==
  /\ prog = "report"
  /\ pc = "walk"
  /\ WalkNext(f)
  /\ endswith(f, DotH)
  /\ out' = Append(out, <<"Error reading", f>>)
  /\ walked' = Append(walked, f)
  /\ UNCHANGED <<prog, tree, tree0, run, pc, types, key_order, duplicates, queue,
                 locations, li, fixed_count>>
  /\ UNCHANGED <<builder_vars, setup_vars>>

\* the lines main prints for one duplicate type (lines 54-57)
RECURSIVE report_lines(_, _)
report_lines(d, names) ==
  IF names = <<>> THEN <<>>
  ELSE <<<<"definitions", Head(names), Len(d[Head(names)])>>>>
       \o [i \in 1..Len(d[Head(names)]) |-> <<"-", relpath(d[Head(names)][i].file)>>]
       \o report_lines(d, Tail(names))

\* the return of find_duplicates and the report of main (lines 46-60)
main ==
  /\ prog = "report"
  /\ pc = "walk"
  /\ Visited = Files
  /\ duplicates' = only_duplicates(types)
  /\ out' = out \o <<<<"Found", Cardinality(keys(duplicates'))>>>>
                \o report_lines(duplicates', sorted_keys(items(key_order, duplicates')))
                \o <<<<"TOTAL", Cardinality(keys(duplicates'))>>>>
  /\ pc' = "done"
  /\ UNCHANGED <<prog, tree, tree0, run, walked, types, key_order, queue, locations, li,
                 fixed_count>>
  /\ UNCHANGED <<builder_vars, setup_vars>>

-----------------------------------------------------------------------------
(* Values, text and bytes of mcp_blueprint_builder.py *)

\* A Python value: t is its type and v what it holds (an integer, a Boolean,
\* the code points of a str, the items of a list, the <<key, value>> pairs of
\* a dict in insertion order).
None == [t |-> "NoneType", v |-> 0]

JInt(n) == [t |-> "int", v |-> n]

JStr(s) == [t |-> "str", v |-> s]

JBool(b) == [t |-> "bool", v |-> b]

JList(vs) == [t |-> "list", v |-> vs]

JDict(kvs) == [t |-> "dict", v |-> kvs]

\* d[k] = x on a dict: a key that is there keeps its place
dict_set(kvs, k, x) ==
  IF \E i \in 1..Len(kvs) : kvs[i][1] = k
  THEN [i \in 1..Len(kvs) |-> IF kvs[i][1] = k THEN <<k, x>> ELSE kvs[i]]
  ELSE Append(kvs, <<k, x>>)

\* the number of bytes of the UTF-8 sequence that starts with byte b, 0 when
\* b cannot start one
utf8_width(b) ==
  IF b < 128 THEN 1
  ELSE IF b >= 194 /\ b <= 223 THEN 2
  ELSE IF b >= 224 /\ b <= 239 THEN 3
  ELSE IF b >= 240 /\ b <= 244 THEN 4
  ELSE 0

RECURSIVE utf8_code_point(_, _, _, _)
utf8_code_point(bytes, i, n, acc) ==
  IF n = 0 THEN acc
  ELSE utf8_code_point(bytes, i + 1, n - 1, acc * 64 + (bytes[i] - 128))

utf8_lead_bits(b) ==
  IF b < 128 THEN b ELSE IF b <= 223 THEN b - 192 ELSE IF b <= 239 THEN b - 224 ELSE b - 240

\* bytes.decode('utf-8'): the code points, or ok = FALSE for the
\* UnicodeDecodeError of a byte that starts no sequence, of a sequence cut
\* short by the end of the data and of a wrong continuation byte (the
\* narrower ranges of the second byte after E0, ED, F0 and F4 are left out).
\* The data is well formed when every byte starts a sequence or continues
\* one, and every sequence has exactly the continuation bytes its first byte
\* asks for.
utf8_decode(bytes) ==
  LET cont(i) == bytes[i] >= 128 /\ bytes[i] <= 191
      leads == {i \in 1..Len(bytes) : utf8_width(bytes[i]) > 0}
      whole(i) ==
        LET n == utf8_width(bytes[i])
        IN /\ i + n - 1 <= Len(bytes)
           /\ \A j \in i + 1..i + n - 1 : cont(j)
           /\ i + n > Len(bytes) \/ ~cont(i + n)
      lead(k) == CHOOSE i \in leads : Cardinality({j \in leads : j <= i}) = k
  IN IF /\ \A i \in 1..Len(bytes) : i \in leads \/ cont(i)
        /\ \A i \in leads : whole(i)
        /\ bytes = <<>> \/ 1 \in leads
     THEN [ok |-> TRUE,
           text |-> [k \in 1..Cardinality(leads) |->
                       utf8_code_point(bytes, lead(k) + 1,
                                       utf8_width(bytes[lead(k)]) - 1,
                                       utf8_lead_bits(bytes[lead(k)]))]]
     ELSE [ok |-> FALSE, text |-> <<>>]

\* the result of a scanning step of json.loads: ok, the value and the index
\* behind it
NoParse == [ok |-> FALSE, v |-> None, i |-> 0]

Parsed(x, next) == [ok |-> TRUE, v |-> x, i |-> next]

\* json.decoder.WHITESPACE: space, tab, line feed, carriage return
RECURSIVE skip_whitespace(_, _)
skip_whitespace(s, i) ==
  IF i <= Len(s) /\ s[i] \in {32, 9, 10, 13} THEN skip_whitespace(s, i + 1) ELSE i

\* a string without escapes: up to the next quotation mark; a control
\* character inside is an error (escape sequences are outside this model)
scan_string(s, i) ==
  LET Q == {j \in i + 1..Len(s) : s[j] = 34}
  IN IF Q = {} THEN NoParse
     ELSE LET j == Min(Q)
          IN IF \E k \in i + 1..j - 1 : s[k] < 32 \/ s[k] = 92 THEN NoParse
             ELSE Parsed(JStr(SubSeq(s, i + 1, j - 1)), j + 1)

RECURSIVE digits_value(_, _, _, _)
digits_value(s, i, j, acc) ==
  IF i > j THEN acc ELSE digits_value(s, i + 1, j, acc * 10 + (s[i] - 48))

RECURSIVE digits_end(_, _)
digits_end(s, i) ==
  IF i <= Len(s) /\ s[i] >= 48 /\ s[i] <= 57 THEN digits_end(s, i + 1) ELSE i

\* an integer: 0 or a digit from 1 to 9 followed by digits (a fraction or an
\* exponent is outside this model)
scan_number(s, i) ==
  IF s[i] = 48 THEN Parsed(JInt(0), i + 1)
  ELSE Parsed(JInt(digits_value(s, i, digits_end(s, i) - 1, 0)), digits_end(s, i))

scan_literal(s, i, word, x) ==
  IF SubSeq(s, i, Min({Len(s), i + Len(word) - 1})) = word
  THEN Parsed(x, i + Len(word)) ELSE NoParse

\* json.scanner.py_make_scanner._scan_once with JSONObject and JSONArray
RECURSIVE scan_once(_, _), scan_members(_, _, _), scan_elements(_, _, _)
scan_once(s, i) ==
  IF i > Len(s) THEN NoParse
  ELSE IF s[i] = 34 THEN scan_string(s, i)
  ELSE IF s[i] = 123
       THEN LET j == skip_whitespace(s, i + 1)
            IN IF j <= Len(s) /\ s[j] = 125 THEN Parsed(JDict(<<>>), j + 1)
               ELSE scan_members(s, j, <<>>)
  ELSE IF s[i] = 91
       THEN LET j == skip_whitespace(s, i + 1)
            IN IF j <= Len(s) /\ s[j] = 93 THEN Parsed(JList(<<>>), j + 1)
               ELSE scan_elements(s, j, <<>>)
  ELSE IF s[i] = 110 THEN scan_literal(s, i, <<110, 117, 108, 108>>, None)
  ELSE IF s[i] = 116 THEN scan_literal(s, i, <<116, 114, 117, 101>>, JBool(TRUE))
  ELSE IF s[i] = 102 THEN scan_literal(s, i, <<102, 97, 108, 115, 101>>, JBool(FALSE))
  ELSE IF s[i] >= 48 /\ s[i] <= 57 THEN scan_number(s, i)
  ELSE NoParse

\* the members of an object from the key at i on; kvs are the pairs so far
scan_members(s, i, kvs) ==
  IF i > Len(s) \/ s[i] # 34 THEN NoParse
  ELSE LET key == scan_string(s, i)
           colon == skip_whitespace(s, key.i)
       IN IF ~key.ok \/ colon > Len(s) \/ s[colon] # 58 THEN NoParse
          ELSE LET value == scan_once(s, skip_whitespace(s, colon + 1))
                   j == skip_whitespace(s, value.i)
               IN IF ~value.ok \/ j > Len(s) THEN NoParse
                  ELSE IF s[j] = 125
                       THEN Parsed(JDict(dict_set(kvs, key.v.v, value.v)), j + 1)
                  ELSE IF s[j] = 44
                       THEN scan_members(s, skip_whitespace(s, j + 1),
                                         dict_set(kvs, key.v.v, value.v))
                  ELSE NoParse

\* the elements of an array from the value at i on
scan_elements(s, i, vs) ==
  LET value == scan_once(s, i)
      j == skip_whitespace(s, value.i)
  IN IF ~value.ok \/ j > Len(s) THEN NoParse
     ELSE IF s[j] = 93 THEN Parsed(JList(Append(vs, value.v)), j + 1)
     ELSE IF s[j] = 44
          THEN scan_elements(s, skip_whitespace(s, j + 1), Append(vs, value.v))
     ELSE NoParse

\* json.loads(s): one value between white space, anything else is a
\* JSONDecodeError (ok = FALSE)
json_loads(s) ==
  LET r == scan_once(s, skip_whitespace(s, 1))
  IN IF r.ok /\ skip_whitespace(s, r.i) = Len(s) + 1 THEN r ELSE NoParse

\* str(n) of an integer that is not negative
RECURSIVE int_str(_)
int_str(n) == IF n < 10 THEN <<48 + n>> ELSE int_str(n \div 10) \o <<48 + (n % 10)>>

\* the body of the repr of a str between the quotes q: a backslash and the
\* quote are escaped (control characters do not occur in this model)
escaped(s, q) ==
  LET E == {i \in 1..Len(s) : s[i] \in {92, q}}
      start(i) == i + Cardinality({e \in E : e < i})
  IN [k \in 1..Len(s) + Cardinality(E) |->
        LET i == CHOOSE i \in 1..Len(s) :
                   start(i) <= k /\ k <= start(i) + (IF i \in E THEN 1 ELSE 0)
        IN IF i \in E /\ k = start(i) THEN 92 ELSE s[i]]

\* repr of a str: in double quotes when it holds ' and no ", otherwise in
\* single quotes
str_repr(s) ==
  IF (\E i \in 1..Len(s) : s[i] = 39) /\ (\A i \in 1..Len(s) : s[i] # 34)
  THEN <<34>> \o escaped(s, 92) \o <<34>>
  ELSE <<39>> \o escaped(s, 39) \o <<39>>

\* repr(x), which is str(x) for every value but a str
RECURSIVE repr(_), repr_list(_), repr_dict(_)
repr(x) ==
  IF x.t = "NoneType" THEN <<78, 111, 110, 101>>
  ELSE IF x.t = "bool" THEN (IF x.v THEN <<84, 114, 117, 101>> ELSE <<70, 97, 108, 115, 101>>)
  ELSE IF x.t = "int" THEN int_str(x.v)
  ELSE IF x.t = "str" THEN str_repr(x.v)
  ELSE IF x.t = "list" THEN <<91>> \o repr_list(x.v) \o <<93>>
  ELSE <<123>> \o repr_dict(x.v) \o <<125>>

repr_list(vs) ==
  IF vs = <<>> THEN <<>>
  ELSE repr(Head(vs)) \o (IF Len(vs) > 1 THEN <<44, 32>> ELSE <<>>) \o repr_list(Tail(vs))

repr_dict(kvs) ==
  IF kvs = <<>> THEN <<>>
  ELSE str_repr(Head(kvs)[1]) \o <<58, 32>> \o repr(Head(kvs)[2])
       \o (IF Len(kvs) > 1 THEN <<44, 32>> ELSE <<>>) \o repr_dict(Tail(kvs))

\* str(x)
str(x) == IF x.t = "str" THEN x.v ELSE repr(x)

\* the bytes of the documents of the server: integers and strings, alone, in
\* an object, in an array, and followed by a line feed
Digits == {49, 50}

\* "a" and the two bytes of U+00E9
Letters == {<<97>>, <<195, 169>>}

RECURSIVE concat(_)
concat(ss) == IF ss = <<>> THEN <<>> ELSE Head(ss) \o concat(Tail(ss))

Atoms ==
  (BSeq(Digits, MaxDigits) \ {<<>>})
  \cup {<<34>> \o concat(ls) \o <<34>> : ls \in BSeq(Letters, MaxLetters)}
  \cup {<<116, 114, 117, 101>>, <<110, 117, 108, 108>>}

Documents ==
  Atoms
  \cup {x \o <<10>> : x \in Atoms}
  \cup {<<123, 34, 97, 34, 58>> \o x \o <<125>> : x \in Atoms}
  \cup {<<91>> \o x \o <<44>> \o y \o <<93>> : x \in Atoms, y \in {<<49>>}}

\* the replies of the server to build_all: {"success":true},
\* {"status":"success"}, {"error":"busy"}, {"error":"no actors"} and 1
BuildReplies ==
  {<<123, 34, 115, 117, 99, 99, 101, 115, 115, 34, 58, 116, 114, 117, 101, 125>>,
   <<123, 34, 115, 116, 97, 116, 117, 115, 34, 58, 34, 115, 117, 99, 99, 101, 115, 115, 34, 125>>,
   <<123, 34, 101, 114, 114, 111, 114, 34, 58, 34, 98, 117, 115, 121, 34, 125>>,
   <<123, 34, 101, 114, 114, 111, 114, 34, 58, 34, 110, 111, 32, 97, 99, 116, 111, 114, 115, 34, 125>>,
   <<49>>}

-----------------------------------------------------------------------------
(* UnrealMCP.send_command *)

\* the keys and texts of the dicts that send_command builds itself
KeySuccess == <<115, 117, 99, 99, 101, 115, 115>>

KeyError == <<101, 114, 114, 111, 114>>

KeyStatus == <<115, 116, 97, 116, 117, 115>>

KeyMessage == <<109, 101, 115, 115, 97, 103, 101>>

TextNoResponse == <<78, 111, 32, 114, 101, 115, 112, 111, 110, 115, 101>>

\* str(e) of the exceptions of connect: ConnectionRefusedError, socket.timeout
TextRefused == <<91, 69, 114, 114, 110, 111, 32, 49, 49, 49, 93, 32, 67, 111, 110, 110, 101, 99, 116, 105, 111, 110, 32, 114, 101, 102, 117, 115, 101, 100>>

TextTimedOut == <<116, 105, 109, 101, 100, 32, 111, 117, 116>>

\* str(e) of ConnectionResetError
TextReset == <<91, 69, 114, 114, 110, 111, 32, 49, 48, 52, 93, 32, 67, 111, 110, 110, 101, 99, 116, 105, 111, 110, 32, 114, 101, 115, 101, 116, 32, 98, 121, 32, 112, 101, 101, 114>>

\* str(e) of the UnicodeDecodeError (the byte and its position are left out)
TextDecode == <<39, 117, 116, 102, 45, 56, 39, 32, 99, 111, 100, 101, 99, 32, 99, 97, 110, 39, 116, 32, 100, 101, 99, 111, 100, 101, 32, 98, 121, 116, 101, 58, 32, 117, 110, 101, 120, 112, 101, 99, 116, 101, 100, 32, 101, 110, 100, 32, 111, 102, 32, 100, 97, 116, 97>>

\* {"success": False, "error": text}
Failure(text) == JDict(<<<<KeySuccess, JBool(FALSE)>>, <<KeyError, JStr(text)>>>>)

\* the server side of one connection: the document it sends, the number of
\* bytes it has sent, and whether it broke off before the end
NoServer == [doc |-> <<>>, pos |-> 0, fault |-> "none"]

\* the documents the server can reply with in the running program
Replies == IF prog = "send_command" THEN Documents ELSE BuildReplies

\* socket(), settimeout(), connect() or sendall() raises (lines 32-37, 57-58)
send_command_connect_error ==
  /\ pc = "call"
  /\ \E text \in {TextRefused, TextTimedOut, TextReset} : response' = Failure(text)
  /\ server' = NoServer
  /\ chunks' = <<>>
  /\ pc' = "returned"
  /\ UNCHANGED <<prog, out, command, sent, todo, pending, built>>
  /\ UNCHANGED <<scan_vars, setup_vars>>

\* the connection is made and the command is sent (lines 32-40)
send_command_connect ==
  /\ pc = "call"
  /\ sent' = Append(sent, command)
  /\ \E doc \in Replies : server' = [doc |-> doc, pos |-> 0, fault |-> "none"]
  /\ chunks' = <<>>
  /\ response' = None
  /\ pc' = "recv"
  /\ UNCHANGED <<prog, out, command, todo, pending, built>>
  /\ UNCHANGED <<scan_vars, setup_vars>>

send_command_recv_raising(n) ==
  /\ pc = "recv"
  /\ n \in 1..Len(server.doc) - server.pos
  /\ server' = [server EXCEPT !.pos = @ + n]
  /\ chunks' = chunks \o SubSeq(server.doc, server.pos + 1, server.pos + n)
  /\ \E data \in {utf8_decode(chunks \o SubSeq(server.doc, server.pos + 1,
                                                server.pos + n))} :
       IF ~data.ok
       THEN UNCHANGED response /\ pc' = "raised"
       ELSE \E parsed \in {json_loads(data.text)} :
              IF parsed.ok
              THEN response' = parsed.v /\ pc' = "returned"
              ELSE UNCHANGED <<response, pc>>
  /\ UNCHANGED <<prog, out, command, sent, todo, pending, built>>
  /\ UNCHANGED <<scan_vars, setup_vars>>

\* recv returns the next n bytes, and the bytes received so far are decoded
\* and parsed (lines 42-52): a UnicodeDecodeError leaves through the outer
\* except clause, a JSONDecodeError goes round the loop
send_command_recv(n) ==
  /\ pc = "recv"
  /\ n \in 1..Len(server.doc) - server.pos
  /\ server' = [server EXCEPT !.pos = @ + n]
  /\ chunks' = chunks \o SubSeq(server.doc, server.pos + 1, server.pos + n)
  /\ \E data \in {utf8_decode(chunks \o SubSeq(server.doc, server.pos + 1,
                                                server.pos + n))} :
       IF ~data.ok
       THEN response' = Failure(TextDecode) /\ pc' = "returned"
       ELSE \E parsed \in {json_loads(data.text)} :
              IF parsed.ok
              THEN response' = parsed.v /\ pc' = "returned"
              ELSE UNCHANGED <<response, pc>>
  /\ UNCHANGED <<prog, out, command, sent, todo, pending, built>>
  /\ UNCHANGED <<scan_vars, setup_vars>>

\* recv returns b'' because the server has closed the connection (lines
\* 43-45, 54-55)
send_command_closed ==
  /\ pc = "recv"
  /\ server' = [server EXCEPT !.fault = IF server.pos < Len(server.doc)
                                         THEN "closed" ELSE @]
  /\ response' = Failure(TextNoResponse)
  /\ pc' = "returned"
  /\ UNCHANGED <<prog, out, command, chunks, sent, todo, pending, built>>
  /\ UNCHANGED <<scan_vars, setup_vars>>

\* recv raises: the time-out of 30 seconds or a reset connection (lines 43,
\* 57-58)
send_command_recv_error ==
  /\ pc = "recv"
  /\ server' = [server EXCEPT !.fault = IF server.pos < Len(server.doc)
                                         THEN "silent" ELSE @]
  /\ \E text \in {TextTimedOut, TextReset} : response' = Failure(text)
  /\ pc' = "returned"
  /\ UNCHANGED <<prog, out, command, chunks, sent, todo, pending, built>>
  /\ UNCHANGED <<scan_vars, setup_vars>>

-----------------------------------------------------------------------------
(* build_all of mcp_blueprint_builder.py *)

\* the command of one call of send_command: its type and the blueprint or
\* widget it names (the other parameters are left out)
Command(type, name) == [type |-> type, name |-> name]

\* no command
NoCommand == Command("", <<>>)

\* the first entry of CORE_BLUEPRINTS, VEHICLE_BLUEPRINTS, RACING_BLUEPRINTS,
\* AI_BLUEPRINTS, ENVIRONMENT_BLUEPRINTS, GARAGE_BLUEPRINTS and UI_WIDGETS,
\* in the order build_all builds the lists
BLUEPRINTS ==
  <<[kind |-> "CORE", name |-> <<66, 80, 95, 77, 71, 71, 97, 109, 101, 73, 110, 115, 116, 97, 110, 99, 101>>],
    [kind |-> "VEHICLE", name |-> <<66, 80, 95, 66, 97, 115, 101, 86, 101, 104, 105, 99, 108, 101>>],
    [kind |-> "RACING", name |-> <<66, 80, 95, 82, 97, 99, 101, 77, 97, 110, 97, 103, 101, 114>>],
    [kind |-> "AI", name |-> <<66, 80, 95, 82, 97, 99, 101, 65, 73, 67, 111, 110, 116, 114, 111, 108, 108, 101, 114>>],
    [kind |-> "ENVIRONMENT", name |-> <<66, 80, 95, 87, 101, 97, 116, 104, 101, 114, 67, 111, 110, 116, 114, 111, 108, 108, 101, 114>>],
    [kind |-> "GARAGE", name |-> <<66, 80, 95, 71, 97, 114, 97, 103, 101>>],
    [kind |-> "UI", name |-> <<87, 66, 80, 95, 77, 97, 105, 110, 77, 101, 110, 117>>]>>

\* the entries build_all gets to within the bound
plan == SubSeq(BLUEPRINTS, 1, MaxBuild)

\* sub in text, for two str
occurs(sub, text) == find(text, sub) # 0

\* a command sent after the blueprint is created, and the line logged after it
\* ("" when none)
After(type, line) == [type |-> type, log |-> line]

\* n times the same command, the line logged after the last
RECURSIVE times(_, _, _)
times(n, type, line) ==
  IF n = 0 THEN <<>>
  ELSE IF n = 1 THEN <<After(type, line)>>
  ELSE <<After(type, "")>> \o times(n - 1, type, line)

\* the commands the build function of the list sends for a created blueprint
Compile == <<After("compile_blueprint", "Compiled")>>

follow_ups(b) ==
  IF b.kind = "CORE"
  THEN <<After("add_blueprint_event_node", "Added BeginPlay event")>> \o Compile
  ELSE IF b.kind = "VEHICLE"
  THEN (IF occurs(<<66, 97, 115, 101>>, b.name)
        THEN <<After("set_pawn_properties", "Set as Player0 possession")>>
        ELSE <<>>)
       \o times(2, "add_blueprint_event_node", "Added BeginPlay and Tick events")
       \o times(3, "add_blueprint_variable", "Added vehicle variables")
       \o Compile
  ELSE IF b.kind = "RACING"
  THEN (IF occurs(<<67, 104, 101, 99, 107, 112, 111, 105, 110, 116>>, b.name) \/ occurs(<<76, 105, 110, 101>>, b.name)
        THEN <<After("add_component_to_blueprint", "Added TriggerBox component")>>
        ELSE <<>>)
       \o times(1, "add_blueprint_event_node", "") \o Compile
  ELSE IF b.kind = "AI"
  THEN times(2, "add_blueprint_event_node", "") \o Compile
  ELSE IF b.kind = "ENVIRONMENT"
  THEN (IF occurs(<<76, 105, 103, 104, 116>>, b.name) \/ occurs(<<83, 105, 103, 110>>, b.name)
        THEN <<After("add_component_to_blueprint", "Added PointLight component")>>
        ELSE <<>>)
       \o times(1, "add_blueprint_event_node", "") \o Compile
  ELSE IF b.kind = "GARAGE"
  THEN times(1, "add_blueprint_event_node", "") \o Compile
  ELSE IF occurs(<<83, 112, 101, 101, 100, 111, 109, 101, 116, 101, 114>>, b.name)
  THEN times(2, "add_text_block_to_widget", "Added speedometer elements")
  ELSE IF occurs(<<77, 97, 105, 110, 77, 101, 110, 117>>, b.name)
  THEN times(1, "add_text_block_to_widget", "")
       \o times(4, "add_button_to_widget", "Added main menu elements")
  ELSE IF occurs(<<82, 97, 99, 101, 82, 101, 115, 117, 108, 116, 115>>, b.name)
  THEN times(3, "add_text_block_to_widget", "")
       \o times(1, "add_button_to_widget", "Added race results elements")
  ELSE IF occurs(<<72, 101, 97, 116, 76, 101, 118, 101, 108>>, b.name)
  THEN times(1, "add_text_block_to_widget", "Added heat level elements")
  ELSE <<>>

\* the command that creates the blueprint or widget
create(b) ==
  Command(IF b.kind = "UI" THEN "create_umg_widget_blueprint" ELSE "create_blueprint",
          b.name)

\* d.get(key, default)
get(d, key, default) ==
  IF \E i \in 1..Len(d.v) : d.v[i][1] = key
  THEN d.v[CHOOSE i \in 1..Len(d.v) : d.v[i][1] = key][2]
  ELSE default

\* bool(x)
truthy(x) ==
  IF x.t = "NoneType" THEN FALSE
  ELSE IF x.t = "bool" THEN x.v
  ELSE IF x.t = "int" THEN x.v # 0
  ELSE x.v # <<>>

\* a == b for two values
RECURSIVE equal(_, _)
equal(a, b) ==
  /\ a.t = b.t
  /\ IF a.t \in {"list", "dict"}
     THEN /\ Len(a.v) = Len(b.v)
          /\ \A i \in 1..Len(a.v) :
               IF a.t = "list" THEN equal(a.v[i], b.v[i])
               ELSE a.v[i][1] = b.v[i][1] /\ equal(a.v[i][2], b.v[i][2])
     ELSE a.t = "NoneType" \/ a.v = b.v

TextSuccess == <<115, 117, 99, 99, 101, 115, 115>>

TextActors == <<97, 99, 116, 111, 114, 115>>

TextUnknown == <<85, 110, 107, 110, 111, 119, 110, 32, 101, 114, 114, 111, 114>>

\* result.get("success") or result.get("status") == "success"
succeeded(result) ==
  \/ truthy(get(result, KeySuccess, None))
  \/ equal(get(result, KeyStatus, None), JStr(TextSuccess))

\* the condition of the connection test of build_all
connected(test) == succeeded(test) \/ occurs(TextActors, str(test))

\* the loops of the build functions go on after the lines logged so far: the
\* next command of the blueprint, the next blueprint, or the summary and
\* return True. The call of send_command is over: its socket is closed, and
\* its chunks and the result are not used again.
build_continue(blueprints, commands, lines) ==
  /\ server' = NoServer /\ chunks' = <<>> /\ response' = None
  /\ IF commands # <<>>
       THEN /\ command' = Command(commands[1].type, blueprints[1].name)
            /\ todo' = blueprints /\ pending' = commands
            /\ out' = lines
            /\ pc' = "call" /\ UNCHANGED built
       ELSE IF blueprints # <<>>
       THEN /\ command' = create(blueprints[1])
            /\ todo' = blueprints /\ pending' = <<>>
            /\ out' = lines \o <<<<"BUILDING", blueprints[1].kind>>,
                                 <<"Creating", blueprints[1].name>>>>
            /\ pc' = "call" /\ UNCHANGED built
       ELSE /\ command' = NoCommand
            /\ todo' = <<>> /\ pending' = <<>>
            /\ out' = Append(lines, <<"BUILD COMPLETE">>)
            /\ pc' = "done" /\ built' = "True"

\* the test command has returned: build_all goes on to the build functions,
\* or logs the response and returns False; get on a response that is no dict
\* raises AttributeError
build_all_test ==
  /\ prog = "build_all" /\ pc = "returned"
  /\ command.type = "get_actors_in_level"
  /\ IF response.t # "dict"
     THEN /\ pc' = "raised"
          /\ UNCHANGED <<command, todo, pending, out, built, server, chunks, response>>
     ELSE IF connected(response)
     THEN build_continue(plan, <<>>, Append(out, <<"Connected">>))
     ELSE /\ out' = out \o <<<<"Could not connect">>, <<"Response", str(response)>>>>
          /\ built' = "False"
          /\ pc' = "done"
          /\ UNCHANGED <<command, todo, pending, server, chunks, response>>
  /\ UNCHANGED <<prog, sent, scan_vars, setup_vars>>

\* create_blueprint or create_widget has returned: the commands that follow
\* for a created blueprint, or the error is logged and the loop goes on
build_created ==
  /\ prog = "build_all" /\ pc = "returned"
  /\ command.type \in {"create_blueprint", "create_umg_widget_blueprint"}
  /\ IF response.t # "dict"
     THEN /\ pc' = "raised"
          /\ UNCHANGED <<command, todo, pending, out, built, server, chunks, response>>
     ELSE IF succeeded(response)
     THEN IF follow_ups(todo[1]) = <<>>
          THEN build_continue(Tail(todo), <<>>, Append(out, <<"Created", todo[1].name>>))
          ELSE build_continue(todo, follow_ups(todo[1]),
                              Append(out, <<"Created", todo[1].name>>))
     ELSE build_continue(Tail(todo), <<>>,
            Append(out, <<"Failed",
                          str(get(response, KeyError,
                                  get(response, KeyMessage, JStr(TextUnknown))))>>))
  /\ UNCHANGED <<prog, sent, scan_vars, setup_vars>>

\* a command that follows the creation has returned: its result is not looked
\* at
build_followed ==
  /\ prog = "build_all" /\ pc = "returned"
  /\ pending # <<>>
  /\ LET lines == IF pending[1].log = "" THEN out
                  ELSE Append(out, <<"log", pending[1].log>>)
     IN IF Len(pending) > 1
        THEN build_continue(todo, Tail(pending), lines)
        ELSE build_continue(Tail(todo), <<>>, lines)
  /\ UNCHANGED <<prog, sent, scan_vars, setup_vars>>

-----------------------------------------------------------------------------
(* run_all_setup of 00_RunAllSetup.py *)

\* the five setup scripts, by the number their file names start with
Scripts == 1..5

\* whether the function the script calls on its last line calls another
\* function the script defines: create_folder_structure does not,
\* create_all_blueprints, create_all_widgets, create_all_input_assets and
\* full_setup do
calls_own_function(k) == k \in {2, 3, 4, 5}

\* how exec(open(...).read()) inside run_all_setup can end for script k. The
\* text runs with the globals of 00_RunAllSetup.py and the locals of
\* run_all_setup, so the functions it defines are local names, and a function
\* of the script that calls another one looks the name up in the globals and
\* raises NameError. "error" is a failure of the script's own work or of
\* open().
inline_outcomes(k) ==
  IF calls_own_function(k) THEN {"NameError", "error"} ELSE {"ok", "error"}

\* one execution of a script: by import_module, by reload or by exec
Execution(k, how, outcome) == [script |-> k, how |-> how, outcome |-> outcome]

\* the end of the try statement of a step: the banner of the next step, or
\* the closing banner after step 5
step_finished ==
  IF step = 5
  THEN step' = step /\ pc' = "done" /\ out' = Append(out, <<"SETUP COMPLETE">>)
  ELSE step' = step + 1 /\ pc' = "import" /\ out' = Append(out, <<"STEP", step + 1>>)

\* import_module runs the script, which is not yet in sys.modules
import_module_executes ==
  /\ prog = "run_all_setup" /\ pc = "import"
  /\ executed' = Append(executed, Execution(step, "import", "ok"))
  /\ pc' = "reload"
  /\ UNCHANGED <<prog, step, out, scan_vars, builder_vars>>

\* import_module returns the module an earlier run in the same editor session
\* has left in sys.modules, and runs nothing
import_module_cached ==
  /\ prog = "run_all_setup" /\ pc = "import"
  /\ pc' = "reload"
  /\ UNCHANGED <<prog, step, executed, out, scan_vars, builder_vars>>

\* import_module raises: the module is not found, or the script fails
import_module_raises ==
  /\ prog = "run_all_setup" /\ pc = "import"
  /\ executed' = Append(executed, Execution(step, "import", "error"))
  /\ pc' = "inline"
  /\ UNCHANGED <<prog, step, out, scan_vars, builder_vars>>

\* reload runs the script again, and the step ends
reload_executes ==
  /\ prog = "run_all_setup" /\ pc = "reload"
  /\ executed' = Append(executed, Execution(step, "reload", "ok"))
  /\ step_finished
  /\ UNCHANGED <<prog, scan_vars, builder_vars>>

\* reload raises
reload_raises ==
  /\ prog = "run_all_setup" /\ pc = "reload"
  /\ executed' = Append(executed, Execution(step, "reload", "error"))
  /\ pc' = "inline"
  /\ UNCHANGED <<prog, step, out, scan_vars, builder_vars>>

\* the except clause: exec of the text of the script. It is not inside a try
\* statement, so what it raises leaves run_all_setup.
exec_inline ==
  /\ prog = "run_all_setup" /\ pc = "inline"
  /\ \E outcome \in inline_outcomes(step) :
       /\ executed' = Append(executed, Execution(step, "inline", outcome))
       /\ IF outcome = "ok"
          THEN step_finished
          ELSE pc' = "raised" /\ UNCHANGED <<step, out>>
  /\ UNCHANGED <<prog, scan_vars, builder_vars>>

-----------------------------------------------------------------------------
(* Specifications *)

\* the scanner and fixer have not run
ScanIdle ==
  /\ tree = <<>>
  /\ tree0 = <<>>
  /\ run = 1
  /\ walked = <<>>
  /\ types = EmptyDict
  /\ key_order = <<>>
  /\ duplicates = EmptyDict
  /\ queue = <<>>
  /\ locations = <<>>
  /\ li = 0
  /\ fixed_count = 0

\* no UnrealMCP object has been made
BuilderIdle ==
  /\ command = NoCommand
  /\ server = NoServer
  /\ chunks = <<>>
  /\ response = None
  /\ sent = <<>>
  /\ todo = <<>>
  /\ pending = <<>>
  /\ built = "None"

\* run_all_setup has not been called
SetupIdle ==
  /\ step = 0
  /\ executed = <<>>

InitWith(progs, trees) ==
  /\ prog \in progs
  /\ tree \in trees
  /\ tree0 = tree
  /\ run = 1
  /\ pc = "walk"
  /\ walked = <<>>
  /\ types = EmptyDict
  /\ key_order = <<>>
  /\ duplicates = EmptyDict
  /\ queue = <<>>
  /\ locations = <<>>
  /\ li = 0
  /\ fixed_count = 0
  /\ out = <<<<"Scanning">>>>
  /\ BuilderIdle
  /\ SetupIdle

Alphabet == {Open, Close, Enum(NameE), Struct(NameFMGC), Struct(NameC)}

\* the patterns of find_duplicates do not involve comment delimiters
ReportAlphabet == {Enum(NameE), Enum(NameFMGC), Struct(NameFMGC), Struct(NameC)}

\* a file that is not a header, empty or holding a declaration
OtherFiles == {join(RelAC) :> c : c \in BSeq({Enum(NameE)}, 1)}

SpecTrees(alphabet) ==
  {h @@ o : h \in Trees(<<RelB, RelAB>>, alphabet, MaxTokens), o \in OtherFiles}

\* one run of either script on a tree of two headers and one other file
Init ==
  \/ InitWith({"auto"}, SpecTrees(Alphabet))
  \/ InitWith({"report"}, SpecTrees(ReportAlphabet))

Next ==
  \/ \E f \in Files : find_all_types_file(f)
  \/ \E f \in Files : find_all_types_skip(f)
  \/ find_all_types_return
  \/ fix_group
  \/ fix_location
  \/ fix_summary
  \/ \E f \in Files : find_duplicates_file(f)
  \/ \E f \in Files : find_duplicates_skip(f)
  \/ main

Spec == Init /\ [][Next]_vars

DeepAlphabet == {Open, Close, Enum(NameE), Enum(NameG)}

\* auto_fix_duplicates.py on a tree of one header with a longer text
InitDeep == InitWith({"auto"}, Trees(<<RelB>>, DeepAlphabet, MaxDeep))

NextDeep ==
  \/ \E f \in Files : find_all_types_file(f)
  \/ find_all_types_return
  \/ fix_group
  \/ fix_location
  \/ fix_summary
  \/ run_again

SpecDeep == InitDeep /\ [][NextDeep]_vars

\* auto_fix_duplicates.py on two headers of one directory, which the walk
\* lists in either order
InitOrder == InitWith({"auto"}, Trees(<<RelB, RelC>>, DeepAlphabet, MaxOrder))

NextOrder ==
  \/ \E f \in Files : find_all_types_file(f)
  \/ find_all_types_return
  \/ fix_group
  \/ fix_location
  \/ fix_summary
  \/ run_again

SpecOrder == InitOrder /\ [][NextOrder]_vars

IOAlphabet == {Enum(NameE), Enum(NameG)}

\* one run of either script on two headers, where every open, read and write
\* of a file may raise
InitIO == InitWith({"auto", "report"}, Trees(<<RelB, RelAB>>, IOAlphabet, MaxIO))

NextIO ==
  \/ \E f \in Files : find_all_types_file(f)
  \/ \E f \in Files : find_all_types_error(f)
  \/ find_all_types_return
  \/ fix_group
  \/ fix_location
  \/ fix_location_read_error
  \/ fix_location_write_error
  \/ fix_summary
  \/ \E f \in Files : find_duplicates_file(f)
  \/ \E f \in Files : find_duplicates_error(f)
  \/ main

SpecIO == InitIO /\ [][NextIO]_vars

InitLive == InitWith({"auto", "report"}, Trees(<<RelB, RelAB>>, IOAlphabet, MaxLive))

\* the steps of a script are taken one after the other until it returns
FairSpecIO == InitLive /\ [][NextIO]_vars /\ WF_vars(NextIO)

TextAlphabet == {Open, Close, Enum(NameE), LF, CR, Invalid}

\* auto_fix_duplicates.py on two headers that hold line ends of either kind
\* and bytes that are not UTF-8
InitText ==
  \E s \in BSeq(TextAlphabet, MaxText) : \E c \in Cuts(1, Len(s)) :
    InitWith({"auto"}, {CutTree(<<RelB, RelAB>>, s, c, 1)})

NextText ==
  \/ \E f \in Files : find_all_types_file(f)
  \/ find_all_types_return
  \/ fix_group
  \/ fix_location
  \/ fix_summary

SpecText == InitText /\ [][NextText]_vars

\* one call of send_command against a server that replies with a document
InitSend ==
  /\ prog = "send_command"
  /\ pc = "call"
  /\ out = <<>>
  /\ ScanIdle
  /\ command \in {Command("get_actors_in_level", <<>>),
                   Command("compile_blueprint", BLUEPRINTS[1].name)}
  /\ server = NoServer
  /\ chunks = <<>>
  /\ response = None
  /\ sent = <<>>
  /\ todo = <<>>
  /\ pending = <<>>
  /\ built = "None"
  /\ SetupIdle

NextSend ==
  \/ send_command_connect_error
  \/ send_command_connect
  \/ \E n \in 1..Len(server.doc) : send_command_recv(n)
  \/ send_command_closed
  \/ send_command_recv_error

SpecSend == InitSend /\ [][NextSend]_vars

\* build_all is called: the banner is logged and the test command is about to
\* be sent
InitBuild ==
  /\ prog = "build_all"
  /\ pc = "call"
  /\ out = <<<<"Connecting">>>>
  /\ command = Command("get_actors_in_level", <<>>)
  /\ server = NoServer
  /\ chunks = <<>>
  /\ response = None
  /\ sent = <<>>
  /\ todo = <<>>
  /\ pending = <<>>
  /\ built = "None"
  /\ ScanIdle
  /\ SetupIdle

NextBuild ==
  \/ send_command_connect_error
  \/ send_command_connect
  \/ \E n \in 1..Len(server.doc) : send_command_recv(n)
  \/ send_command_closed
  \/ send_command_recv_error
  \/ build_all_test
  \/ build_created
  \/ build_followed

SpecBuild == InitBuild /\ [][NextBuild]_vars

\* run_all_setup is called on the last line of 00_RunAllSetup.py: the opening
\* banner and the banner of step 1 are logged
InitSetup ==
  /\ prog = "run_all_setup"
  /\ pc = "import"
  /\ out = <<<<"SETUP STARTING">>, <<"STEP", 1>>>>
  /\ step = 1
  /\ executed = <<>>
  /\ ScanIdle
  /\ BuilderIdle

NextSetup ==
  \/ import_module_executes
  \/ import_module_cached
  \/ import_module_raises
  \/ reload_executes
  \/ reload_raises
  \/ exec_inline

SpecSetup == InitSetup /\ [][NextSetup]_vars

-----------------------------------------------------------------------------
(* Properties *)

HeaderFiles == {f \in Files : endswith(f, DotH)}

SeqSet(s) == {s[i] : i \in 1..Len(s)}

\* the matches of the running script's patterns in one file of tree tr
Matched(tr, f) ==
  IF prog = "auto" THEN enum_pattern_finditer(f, read_text(tr[f]), 1)
  ELSE find_duplicates_matches(f, read_text(tr[f]))

AllMatched(tr) == UNION {SeqSet(Matched(tr, f)) : f \in HeaderFiles}

Scanned == pc \in {"loop", "locs", "done"}

\* C1: once the scan has returned, the mapping holds exactly the type names
\* matched more than once in the header files of the tree, each with the
\* list of all of its matches (no match missing, none repeated); no list
\* has length 1, and a name matched once or never has no entry.
C1_ScanResult ==
  Scanned =>
    \A n \in TypeNames :
      LET M == {m \in AllMatched(tree0) : m.name = n}
      IN /\ Len(duplicates[n]) # 1
         /\ IF Cardinality(M) > 1
            THEN SeqSet(duplicates[n]) = M /\ Len(duplicates[n]) = Cardinality(M)
            ELSE duplicates[n] = <<>>

C1_Witness ==
  /\ pc = "done"
  /\ prog = "report"
  /\ \E n \in TypeNames : Len(duplicates[n]) = 2
  /\ \E n \in TypeNames : Cardinality({m \in AllMatched(tree0) : m.name = n}) = 1

EnumCount(content, n) == Cardinality({i \in 1..Len(content) : content[i] = Enum(n)})

FilesDeclaring(tr, n) == {f \in HeaderFiles : EnumCount(tr[f], n) > 0}

TwoFilesOneEach(n) ==
  /\ Cardinality(FilesDeclaring(tree0, n)) = 2
  /\ \A f \in FilesDeclaring(tree0, n) : EnumCount(tree0[f], n) = 1

C3_CanonicalFileUnchanged ==
  [][pc = "locs" => tree'[canonical.file] = tree[canonical.file]]_vars

\* C4: a pass of the loop over a non-canonical location whose matched text
\* occurs in its file rewrites that file in place: one occurrence of the
\* text is replaced by the stub, whose fields are the type name, the literal
\* "REMOVED (duplicate)" and the canonical path relative to SOURCE_PATH with
\* "/" for every "\"; the rest of the file and all other files stay as they
\* were.
C4_StubWritten ==
  [][(pc = "locs" /\ find(tree[locations[li].file], locations[li].match) # 0) =>
       LET loc == locations[li]
           old == tree[loc.file]
           new == tree'[loc.file]
           n == Len(loc.match)
       IN /\ DOMAIN tree' = DOMAIN tree
          /\ \A g \in DOMAIN tree \ {loc.file} : tree'[g] = tree[g]
          /\ Len(new) = Len(old) - n + 1
          /\ \E i \in 1..Len(old) - n + 1 :
               /\ SubSeq(old, i, i + n - 1) = loc.match
               /\ SubSeq(new, 1, i - 1) = SubSeq(old, 1, i - 1)
               /\ SubSeq(new, i + 1, Len(new)) = SubSeq(old, i + n, Len(old))
               /\ new[i].k = "REMOVED (duplicate)"
               /\ new[i].name = type_name
               /\ \A j \in 1..Len(new[i].ref) : new[i].ref[j] # BACKSLASH
               /\ Len(new[i].ref) = Len(canonical.file) - Len(SOURCE_PATH) - 1
               /\ \A j \in 1..Len(new[i].ref) :
                    LET c == canonical.file[Len(SOURCE_PATH) + 1 + j]
                    IN new[i].ref[j] = (IF c = BACKSLASH THEN SLASH ELSE c)]_vars

C4_Witness ==
  /\ prog = "auto"
  /\ \E i \in 1..Len(tree[join(RelB)]) :
       tree[join(RelB)][i] = [k |-> "REMOVED (duplicate)", name |-> NameE,
                              ref |-> <<97, 47, 98, 46, 104>>]
  /\ fixed_count = 1

\* C5: in a second run of auto_fix_duplicates.py on the tree the first run
\* left, the scan finds no duplicate type name and no file is modified.
C5_SecondRunIdle ==
  (run = 2 /\ Scanned) => (keys(duplicates) = {} /\ tree = tree0)

Positions(tr) == UNION {{<<f, i>> : i \in 1..Len(tr[f])} : f \in Files}

StubCount(tr, n) ==
  Cardinality({x \in Positions(tr) :
                 /\ tr[x[1]][x[2]].k = "REMOVED (duplicate)"
                 /\ tr[x[1]][x[2]].name = n})

\* C6: when the first run has ended, every type name the scan reported has
\* exactly one declaration left that the scan pattern matches; it is the
\* canonical one (the canonical match's text, in the file with the smallest
\* path of the group), and every other location of the group is a stub.
C6_OneCanonicalLeft ==
  (run = 1 /\ pc = "done" /\ prog = "auto") =>
    \A n \in keys(duplicates) :
      LET left == {m \in AllMatched(tree) : m.name = n}
          group == SeqSet(duplicates[n])
          first == CHOOSE m \in group :
                     \A o \in group : m.file = o.file \/ StrLess(m.file, o.file)
      IN /\ Cardinality(left) = 1
         /\ \A m \in left : m.file = first.file /\ m.match = duplicates[n][1].match
         /\ StubCount(tree, n) = Len(duplicates[n]) - 1

StructFiles(tr, n) ==
  {f \in HeaderFiles : \E i \in 1..Len(tr[f]) : tr[f][i] = Struct(n)}

\* C7: a struct with the prefix FMG that is declared with USTRUCT in two
\* header files is in the scan result of the running script.
C7_StructGroupFound ==
  \A n \in TypeNames :
    (Scanned /\ startswith(n, FMG) /\ Cardinality(StructFiles(tree0, n)) >= 2)
      => n \in keys(duplicates)

\* C8: no struct match is recorded under a name without the prefix FMG, and
\* such a name is in the scan result only if enums of that name put it there.
C8_UnprefixedStructIgnored ==
  \A n \in TypeNames :
    ~startswith(n, FMG) =>
      /\ \A i \in 1..Len(types[n]) : types[n][i].kind # "struct"
      /\ (\A f \in HeaderFiles : EnumCount(tree0[f], n) = 0) => n \notin keys(duplicates)

C8_Witness ==
  /\ pc = "done"
  /\ prog = "report"
  /\ Cardinality(StructFiles(tree0, NameC)) = 2
  /\ NameC \notin keys(duplicates)

RECURSIVE OrderedMatches(_)
OrderedMatches(S) ==
  IF S = {} THEN <<>>
  ELSE LET m == CHOOSE x \in S : \A y \in S \ {x} :
                   \/ StrLess(x.file, y.file)
                   \/ (x.file = y.file /\ x.start < y.start)
       IN <<m>> \o OrderedMatches(S \ {m})

PlanLocs(tr, n) == OrderedMatches({m \in AllMatched(tr) : m.name = n})

RECURSIVE OrderedNames(_)
OrderedNames(S) ==
  IF S = {} THEN <<>>
  ELSE LET m == CHOOSE x \in S : \A y \in S \ {x} : StrLess(x, y)
       IN <<m>> \o OrderedNames(S \ {m})

PlanNames(tr) ==
  OrderedNames({n \in TypeNames : Cardinality({m \in AllMatched(tr) : m.name = n}) > 1})

RECURSIVE PlanFixLocs(_, _, _, _)
PlanFixLocs(tr, n, locs, i) ==
  IF i > Len(locs) THEN tr
  ELSE PlanFixLocs(fix_location_tree(tr, n, locs[1], locs[i]), n, locs, i + 1)

RECURSIVE PlanFix(_, _, _)
PlanFix(tr, from, names) ==
  IF names = <<>> THEN tr
  ELSE PlanFix(PlanFixLocs(tr, Head(names), PlanLocs(from, Head(names)), 2),
               from, Tail(names))

\* C10: the groups still to be fixed, the sorted locations of the group being
\* fixed (the canonical one first) and the tree the run leaves are functions
\* of the tree the run started on: they do not depend on the order of the walk.
C10_WalkOrderIrrelevant ==
  /\ Scanned =>
       \E k \in 1..Len(PlanNames(tree0)) + 1 :
         queue = SubSeq(PlanNames(tree0), k, Len(PlanNames(tree0)))
  /\ pc = "loop" /\ li = 0 => queue = PlanNames(tree0)
  /\ pc = "locs" => locations = PlanLocs(tree0, type_name)
  /\ pc = "done" => tree = PlanFix(tree0, tree0, PlanNames(tree0))

C10_Witness ==
  /\ pc = "done"
  /\ run = 1
  /\ walked = <<join(RelC), join(RelB)>>
  /\ key_order = <<NameG, NameE>>
  /\ Cardinality(keys(duplicates)) = 2
  /\ duplicates[NameE][1].file = join(RelB)
  /\ duplicates[NameE][2].file = join(RelC)

\* the header files for which the scan printed its error line
Unreadable ==
  {f \in HeaderFiles :
     \E i \in 1..Len(out) :
       out[i] = <<(IF prog = "auto" THEN "Error" ELSE "Error reading"), f>>}

ReadMatched(tr) == UNION {SeqSet(Matched(tr, f)) : f \in HeaderFiles \ Unreadable}

\* C11: a header file that cannot be read during the scan contributes no
\* match record and gets an error line; the scan still visits every file, and
\* the result holds all the records of the files that could be read, whether
\* they were visited before or after the unreadable one.
C11_UnreadableSkipped ==
  /\ Cardinality(Unreadable) =
       Cardinality({i \in 1..Len(out) : out[i][1] \in {"Error", "Error reading"}})
  /\ \A n \in TypeNames : \A i \in 1..Len(types[n]) : types[n][i].file \notin Unreadable
  /\ Scanned =>
       /\ SeqSet(walked) = Files
       /\ \A n \in TypeNames :
            LET M == {m \in ReadMatched(tree0) : m.name = n}
            IN /\ SeqSet(types[n]) = M
               /\ Len(types[n]) = Cardinality(M)
               /\ IF Cardinality(M) > 1
                  THEN /\ SeqSet(duplicates[n]) = M
                       /\ Len(duplicates[n]) = Cardinality(M)
                  ELSE duplicates[n] = <<>>

C11_Witness ==
  /\ Scanned
  /\ Unreadable = {walked[1]}
  /\ Len(duplicates[NameE]) = 2
  /\ Matched(tree0, walked[1]) # <<>>

\* the passes of the fix loop that the run has started
Passes == {i \in 1..Len(out) : out[i][1] = "Removing from"}

\* the passes that ended in the except clause
FailedPasses == {i \in 1..Len(out) : out[i][1] = "Error fixing"}

C13_AbsentTextIgnored ==
  [][(/\ pc = "locs"
      /\ find(tree[locations[li].file], locations[li].match) = 0
      /\ out'[Len(out')] # <<"Error fixing", "read">>) =>
       /\ tree' = tree
       /\ fixed_count' = fixed_count
       /\ out' = Append(out, <<"Removing from", relpath(locations[li].file)>>)]_vars

C13_Witness ==
  /\ prog = "auto"
  /\ pc = "done"
  /\ fixed_count = 0
  /\ Cardinality(Passes) = 2
  /\ Cardinality(FailedPasses) = 1
  /\ out[Len(out) - 1][1] = "Removing from"
  /\ Len(tree0[join(RelB)]) = 2
  /\ tree[join(RelB)] = <<>>

\* the script has printed its summary line and returned
Summarised ==
  /\ pc = "done"
  /\ out[Len(out)] = (IF prog = "auto" THEN <<"Fixed", fixed_count>>
                      ELSE <<"TOTAL", Cardinality(keys(duplicates))>>)

NamedDotH(f) == Len(f) >= 2 /\ f[Len(f) - 1] = 46 /\ f[Len(f)] = 104

\* C15: a file whose name does not end in ".h" is passed over by the walk
\* without any effect, its content never changes, and no record of the scan
\* and no location of a duplicate group lies in it, even when it holds a
\* declaration that the patterns match.
C15_OnlyHeaders ==
  /\ [](\A f \in Files :
          ~NamedDotH(f) =>
            /\ tree[f] = tree0[f]
            /\ \A n \in TypeNames :
                 /\ \A i \in 1..Len(types[n]) : types[n][i].file # f
                 /\ \A i \in 1..Len(duplicates[n]) : duplicates[n][i].file # f)
  /\ [][\A f \in Files :
          (~NamedDotH(f) /\ walked' = Append(walked, f)) =>
            UNCHANGED <<tree, types, key_order, out>>]_vars

C15_Witness ==
  /\ prog = "auto"
  /\ pc = "done"
  /\ tree[join(RelAC)] = <<Enum(NameE)>>
  /\ Len(duplicates[NameE]) = 2
  /\ fixed_count = 1
  /\ EnumCount(tree[join(RelB)], NameE) + EnumCount(tree[join(RelAB)], NameE) = 1

StructCount(content, n) == Cardinality({i \in 1..Len(content) : content[i] = Struct(n)})

\* the number of declarations of kind k and name n in the header files
Declared(k, n) ==
  LET count(f) == IF k = "enum" THEN EnumCount(tree0[f], n)
                  ELSE IF n = NameFMGC THEN StructCount(tree0[f], n) ELSE 0
      RECURSIVE sum(_)
      sum(S) == IF S = {} THEN 0
                ELSE LET f == CHOOSE g \in S : TRUE IN count(f) + sum(S \ {f})
  IN sum({f \in Files : NamedDotH(f)})

\* C16: in the result of find_duplicates, a name declared once as an enum
\* and once as a prefixed struct, in one header or in two, has the two
\* locations, one of each kind; a name with one declaration in all has none.
C16_GroupedByName ==
  (prog = "report" /\ pc = "done") =>
    \A n \in TypeNames :
      /\ (Declared("enum", n) = 1 /\ Declared("struct", n) = 1) =>
            /\ Len(duplicates[n]) = 2
            /\ {duplicates[n][1].kind, duplicates[n][2].kind} = {"enum", "struct"}
      /\ Declared("enum", n) + Declared("struct", n) = 1 => duplicates[n] = <<>>

C16_Witness ==
  /\ prog = "report"
  /\ pc = "done"
  /\ Len(duplicates[NameFMGC]) = 2
  /\ duplicates[NameFMGC][1].file = duplicates[NameFMGC][2].file
  /\ duplicates[NameFMGC][1].kind # duplicates[NameFMGC][2].kind
  /\ Declared("enum", NameE) = 1

\* C17: when main of fix_duplicates.py has returned, every type name it
\* found duplicated has one declaration left in the tree, and that one is in
\* the file with the smallest path of its group.
C17_ReportFixes ==
  (prog = "report" /\ pc = "done") =>
    \A n \in keys(duplicates) :
      LET left == {m \in AllMatched(tree) : m.name = n}
      IN /\ Cardinality(left) = 1
         /\ \A m \in left : \A o \in SeqSet(duplicates[n]) :
              m.file = o.file \/ StrLess(m.file, o.file)

\* a and b are the same Python value
RECURSIVE SameValue(_, _)
SameValue(a, b) ==
  /\ a.t = b.t
  /\ IF a.t = "list"
     THEN /\ Len(a.v) = Len(b.v)
          /\ \A i \in 1..Len(a.v) : SameValue(a.v[i], b.v[i])
     ELSE IF a.t = "dict"
     THEN /\ Len(a.v) = Len(b.v)
          /\ \A i \in 1..Len(a.v) :
               a.v[i][1] = b.v[i][1] /\ SameValue(a.v[i][2], b.v[i][2])
     ELSE a.v = b.v

\* C18: when the server has sent its whole document, a valid JSON text in
\* UTF-8, or send_command has returned before the end of it, the value
\* returned is the value of the document, however the bytes came in.
C18_ReplyParsed ==
  (prog = "send_command" /\ pc = "returned" /\ server.doc # <<>>
     /\ server.fault = "none") =>
    SameValue(response, json_loads(utf8_decode(server.doc).text).v)

\* script k has run to its end
RanToEnd(k) ==
  \E i \in 1..Len(executed) : executed[i].script = k /\ executed[i].outcome = "ok"

\* C19: run_all_setup executes the five setup scripts in order: a script is
\* executed only after every earlier script has run to its end, an import or
\* reload that raised is followed by the inline execution of the same script,
\* that inline execution runs the script and does not fail on a name the
\* script itself defines, and at the closing banner all five have run
C19_ScriptsInOrder ==
  /\ \A i \in 1..Len(executed) : \A k \in 1..(executed[i].script - 1) :
       \E j \in 1..(i - 1) : executed[j].script = k /\ executed[j].outcome = "ok"
  /\ \A i \in 1..(Len(executed) - 1) :
       (executed[i].how # "inline" /\ executed[i].outcome # "ok") =>
         (executed[i + 1].script = executed[i].script /\ executed[i + 1].how = "inline")
  /\ \A i \in 1..Len(executed) :
       executed[i].how = "inline" => executed[i].outcome # "NameError"
  /\ pc = "done" => \A k \in Scripts : RanToEnd(k)

\* the test command of build_all has returned
TestReturned ==
  prog = "build_all" /\ pc = "returned" /\ command.type = "get_actors_in_level"

\* the response is a dict that reports an error and no success
ReportsFailure(r) ==
  /\ r.t = "dict"
  /\ \E i \in 1..Len(r.v) : r.v[i][1] = KeyError
  /\ ~succeeded(r)

\* C20: the first command of build_all is a connection test: after a test
\* response that is not a success build_all sends no further command, and
\* after one that reports a failure (the dict send_command makes of a
\* connection error, or a reply of the server with an error) it returns False
C20_TestGuardsBuild ==
  [][TestReturned =>
       /\ (response.t # "dict" \/ ~succeeded(response)) =>
            (sent' = sent /\ pc' \in {"done", "raised"})
       /\ ReportsFailure(response) => (pc' = "done" /\ built' = "False")]_vars

\* the text is one declaration: the enum alone, or one comment (from "/**"
\* to the first "*/") directly followed by the enum
OneDeclaration(m) ==
  /\ m # <<>>
  /\ m[Len(m)].k = "enum"
  /\ \/ Len(m) = 1
     \/ /\ m[1].k = "open"
        /\ m[Len(m) - 1].k = "close"
        /\ \A j \in 2..Len(m) - 2 : m[j].k \notin {"close", "enum"}

\* C21: the text a pass of the fix loop replaces in a file is one duplicate
\* declaration, alone or preceded by the one doc comment in front of it;
\* nothing else of the file lies inside the replaced text.
C21_OnlyTheDeclaration ==
  [][(prog = "auto" /\ pc = "locs" /\ tree' # tree) =>
       OneDeclaration(locations[li].match)]_vars

\* a pass of the fix loop that writes the file of its location
Rewrites == prog = "auto" /\ pc = "locs" /\ tree' # tree

\* new is old with one stretch of bytes, read as old_text, replaced by the
\* stub, and every byte in front of and behind the stretch as it was
FrameKept(old, new, old_text) ==
  \E i \in 1..Len(old) : \E j \in i..Len(old) :
    /\ read_text(SubSeq(old, i, j)) = old_text
    /\ i <= Len(new)
    /\ new[i].k = "REMOVED (duplicate)"
    /\ SubSeq(new, 1, i - 1) = SubSeq(old, 1, i - 1)
    /\ SubSeq(new, i + 1, Len(new)) = SubSeq(old, j + 1, Len(old))

\* C22: a pass that rewrites a file writes back every byte outside the
\* replaced declaration text as it was: line ends of either kind and bytes
\* that are not valid UTF-8 included.
C22_OutsideUnchanged ==
  [][Rewrites =>
       FrameKept(tree[locations[li].file], tree'[locations[li].file],
                 locations[li].match)]_vars

\* the stubs for the type name n in a file's content
FileStubs(content, n) ==
  Cardinality({i \in 1..Len(content) :
                 content[i].k = "REMOVED (duplicate)" /\ content[i].name = n})

\* a pass of the fix loop that has written its file and counted it
WrittenPass ==
  prog = "auto" /\ pc = "locs" /\ tree' # tree /\ fixed_count' = fixed_count + 1

\* no pass of the fix loop has ended in the except clause
NoFixError == \A i \in 1..Len(out) : out[i][1] # "Error fixing"

RECURSIVE TotalLocations(_, _)
TotalLocations(d, names) ==
  IF names = {} THEN 0
  ELSE LET n == CHOOSE x \in names : TRUE
       IN Len(d[n]) + TotalLocations(d, names \ {n})

\* the non-canonical locations of the scan result
NonCanonical ==
  TotalLocations(duplicates, keys(duplicates)) - Cardinality(keys(duplicates))

\* the pass of the fix loop that is about to run finds the text of its
\* location in the file
TextFound ==
  find(read_text(tree[locations[li].file]), locations[li].match) # 0

\* C24: the count goes up by one in exactly the passes that find the text of
\* their location and write the file without an error, and the file then
\* holds one stub more; the count never exceeds the number of locations of
\* all groups minus the number of groups, equals it at the end of a run
\* without a failed pass (every text is found then), and is the number the
\* summary line reports.
C24_CountOfFixes ==
  /\ [][/\ (prog = "auto" /\ pc = "locs") =>
            /\ fixed_count' = fixed_count
                 + (IF TextFound /\ out'[Len(out')][1] # "Error fixing"
                    THEN 1 ELSE 0)
            /\ (fixed_count' = fixed_count + 1) =>
                 (FileStubs(tree'[locations[li].file], type_name) =
                    FileStubs(tree[locations[li].file], type_name) + 1)
        /\ (prog = "auto" /\ pc # "locs") => fixed_count' \in {fixed_count, 0}]_vars
  /\ []((prog = "auto" /\ Scanned) => fixed_count <= NonCanonical)
  /\ []((prog = "auto" /\ pc = "done") =>
          /\ out[Len(out)] = <<"Fixed", fixed_count>>
          /\ (NoFixError => fixed_count = NonCanonical))

\* a run over two groups has ended without a failed pass and has counted
\* every non-canonical location
C24_Witness ==
  /\ prog = "auto"
  /\ pc = "done"
  /\ NoFixError
  /\ Cardinality(keys(duplicates)) = 2
  /\ fixed_count = NonCanonical
  /\ fixed_count >= 2

\* the value is a dict {"success": False, "error": <a message>}
IsFailure(r) ==
  /\ r.t = "dict"
  /\ Len(r.v) = 2
  /\ r.v[1] = <<KeySuccess, JBool(FALSE)>>
  /\ r.v[2][1] = KeyError
  /\ r.v[2][2].t = "str"
  /\ r.v[2][2].v # <<>>

\* a step of send_command in which something fails: no connection is made or
\* the command is not sent, recv delivers nothing (the connection was closed,
\* timed out or was reset), or the bytes received do not decode
FailingStep ==
  \/ pc = "call" /\ sent' = sent /\ pc' # pc
  \/ pc = "recv" /\ chunks' = chunks /\ pc' # pc
  \/ pc = "recv" /\ chunks' # chunks /\ ~utf8_decode(chunks').ok

\* C25: send_command never raises to its caller: every failure of making
\* the socket, connecting, sending, receiving or decoding ends the call with
\* the return of a dict {"success": False, "error": <message>}.
C25_FailuresReturned ==
  /\ [](prog = "send_command" => pc \in {"call", "recv", "returned"})
  /\ [][(prog = "send_command" /\ FailingStep) =>
          (pc' = "returned" /\ IsFailure(response'))]_vars

\* the call has returned the dict made of a UnicodeDecodeError
C25_Witness ==
  /\ prog = "send_command"
  /\ pc = "returned"
  /\ chunks # <<>>
  /\ ~utf8_decode(chunks).ok
  /\ IsFailure(response)

====
